---- MODULE Spec2Model ----
(***************************************************************************)
(* The two streaming clients of compass-financial                          *)
(*   src/services/finnhubWebSocket.ts  (Provider B, FinnhubWebSocket)      *)
(*   src/services/eodhdWebSocket.ts    (Provider A, EODHDWebSocket)        *)
(* as one state machine.  The client object's fields are the variables;    *)
(* every public method, every transport callback (onopen, onerror,         *)
(* onclose) and every timer callback is one action.  The transport         *)
(* (the platform WebSocket) and the clock are the environment.             *)
(***************************************************************************)
EXTENDS Integers, Sequences, FiniteSets, TLC

VARIABLES
  provider,          \* API_PROVIDER: which client class the singleton is
  sockets,           \* the WebSocket objects created so far, in creation order
  dispatching,       \* socket whose close event follows its error event, or 0
  timers,            \* pending setTimeout callbacks, in scheduling order
  ws,                \* this.ws: a socket id, 0 for null
  symbols,           \* this.symbols
  messageCallbacks,  \* this.messageCallbacks: symbol -> list of handlers
  errorCallback,     \* this.errorCallback, "null" when unset
  connectCallback,   \* this.connectCallback, "null" when unset
  reconnectAttempts, \* this.reconnectAttempts
  isConnecting,      \* this.isConnecting
  pingInterval,      \* this.pingInterval: TRUE while a setInterval handle is held
  intervals,         \* number of setInterval timers that are running
  rateLimitedUntil,  \* this.rateLimitedUntil, Null for null
  effects,           \* outputs of the last call or callback: transport calls,
                     \* errors reported, promise outcome
  disconnected,      \* history: disconnect() was called and connect() not since
  calls,             \* history: connect() and disconnect() calls of the application
  unsubscribers,     \* the functions onPriceUpdate has returned, in order
  timeframe,         \* the selected chart timeframe
  historical,        \* historicalChartData[symbol][timeframe]: the REST snapshot
  candles,           \* realtimeChartData[symbol]: the candles built from ticks
  folded             \* history: the ticks passed to updateCandleWithTick so far

streamVars == <<provider, sockets, dispatching, timers, ws, symbols,
                messageCallbacks, errorCallback, connectCallback, reconnectAttempts,
                isConnecting, pingInterval, intervals, rateLimitedUntil, effects,
                disconnected, calls, unsubscribers>>

candleVars == <<timeframe, historical, candles, folded>>

vars == <<streamVars, candleVars>>

clientVars == <<ws, symbols, messageCallbacks, errorCallback, connectCallback,
                reconnectAttempts, isConnecting, pingInterval, rateLimitedUntil>>

----------------------------------------------------------------------------
(* Bounds of the model: WebSocket objects ever created, connect() and
   disconnect() calls the application makes, timers pending at once,
   the longest single step of the clock, ticks folded into a candle series,
   how far below the cap a long series starts, and onPriceUpdate calls. *)

MaxSockets == 6
MaxCalls == 3
MaxTimers == 2
MaxTicks == 3
CapSlack == 2
MaxHandlers == 3
TickStep == 100000

(* The clock.  Only differences between Date.now() and stored deadlines are
   read, so the current instant is the origin of the time axis: a deadline is
   stored as its distance from now, and the passing of d milliseconds moves
   every stored deadline d closer (see Tick). *)
now == 0
Null == 0 - 1

(* Program constants *)

maxReconnectAttempts == 5
reconnectDelay == 3000
RATE_LIMIT_COOLDOWN == 5 * 60 * 1000
SetupDelay == 100
MaxCandles == 1000
CLOSE_NORMAL == 1000
CLOSE_ABNORMAL == 1006
CLOSE_POLICY == 1008
CLOSE_INTERNAL == 1011

Providers == {"finnhub", "eodhd"}
SymbolLists == {<<"AAPL", "MSFT">>, <<"TSLA">>}
CloseCodes == {CLOSE_NORMAL, CLOSE_ABNORMAL, CLOSE_POLICY, CLOSE_INTERNAL}
\* event.reason, as the words of the reason string
Reasons == {<<>>, <<"HTTP", "403">>, <<"HTTP", "429">>}
SocketIds == 1..MaxSockets

----------------------------------------------------------------------------
(* Errors handed to the error callback or to reject() *)

RateLimitedError(m) ==
  [message |-> "Rate limited. Please wait N more minute(s) before reconnecting.",
   minutes |-> m, reason |-> <<>>]
RateLimitExceededError ==
  [message |-> "Rate limit exceeded. Please wait N minutes before trying again.",
   minutes |-> RATE_LIMIT_COOLDOWN \div 60000, reason |-> <<>>]
AuthenticationError ==
  [message |-> "Authentication failed. Please check your API key.",
   minutes |-> 0, reason |-> <<>>]
MaxAttemptsError ==
  [message |-> "Max reconnection attempts reached. Please check your API key and connection.",
   minutes |-> 0, reason |-> <<>>]
ConnectionError ==
  [message |-> "WebSocket connection error", minutes |-> 0, reason |-> <<>>]
\* new Error(event.reason || 'Connection closed')
ClosedError(reason) ==
  [message |-> IF reason = <<>> THEN "Connection closed" ELSE "event.reason",
   minutes |-> 0, reason |-> reason]
NoError == [message |-> "", minutes |-> 0, reason |-> <<>>]

----------------------------------------------------------------------------
(* Helpers *)

\* String.prototype.includes on the words of the reason
Includes(reason, word) == \E i \in 1..Len(reason) : reason[i] = word

\* (variant: Math.floor in place of Math.ceil)
FloorMinutes(ms) == ms \div 60000

\* Math.ceil(ms / 60000) for ms > 0
CeilMinutes(ms) == (ms + 59999) \div 60000

\* Math.pow(2, n)
RECURSIVE Pow2(_)
Pow2(n) == IF n <= 0 THEN 1 ELSE 2 * Pow2(n - 1)

\* a socket not yet created, and one whose close event was delivered
FreeSocket == [readyState |-> "FREE", symbols |-> <<>>]
ClosedSocket == [readyState |-> "CLOSED", symbols |-> <<>>]
FreeSlots == {s \in SocketIds : sockets[s].readyState = "FREE"}
\* new WebSocket(wsUrl): the next object
NewSocket == CHOOSE s \in FreeSlots : \A t \in FreeSlots : s <= t

\* this.ws && this.ws.readyState === WebSocket.OPEN, in the socket table socks
IsOpen(socks, w) == w # 0 /\ socks[w].readyState = "OPEN"

\* isConnected()
isConnected == IsOpen(sockets, ws)

\* the callback is invoked only when one is registered
Report(err) == IF errorCallback # "null" THEN <<err>> ELSE <<>>

\* no inbound frame
NoFrame == [kind |-> "none", data |-> <<>>]

\* a call or callback that reports nothing: no transport call, no error
\* callback, no connect callback, no promise settled, no inbound frame, no
\* price handler invoked, and not a call of a returned unsubscribe function
Quiet(op) ==
  [op |-> op, sent |-> <<>>, errors |-> <<>>, notified |-> FALSE,
   result |-> "none", rejection |-> NoError, expired |-> FALSE,
   frame |-> NoFrame, invoked |-> <<>>, closure |-> 0]

RemoveAt(seq, i) == [j \in 1..(Len(seq) - 1) |-> IF j < i THEN seq[j] ELSE seq[j + 1]]

\* a pending setTimeout: its callback, its delay, the symbols its closure
\* holds and (history) the socket whose handler scheduled it
ReconnectTimer(s, delay) ==
  [kind |-> "reconnect", due |-> now + delay, delay |-> delay, symbols |-> <<>>,
   sock |-> s]
SetupTimer(s, syms) ==
  [kind |-> "setup", due |-> now + SetupDelay, delay |-> SetupDelay, symbols |-> syms,
   sock |-> s]

\* (variant: one message for all symbols)
MessagesJoined(socks, w, type, syms) ==
  IF ~IsOpen(socks, w) THEN <<>>
  ELSE <<[sock |-> w, type |-> type, symbols |-> syms]>>

\* FinnhubWebSocket.subscribe / unsubscribe: one message per symbol on this.ws
FinnhubMessages(socks, w, type, syms) ==
  IF ~IsOpen(socks, w) THEN <<>>
  ELSE [i \in 1..Len(syms) |-> [sock |-> w, type |-> type, symbols |-> <<syms[i]>>]]

\* EODHDWebSocket.subscribe / unsubscribe: one message, symbols joined
EodhdMessages(socks, w, type, syms) ==
  IF ~IsOpen(socks, w) THEN <<>>
  ELSE <<[sock |-> w, type |-> type, symbols |-> syms]>>

\* this.ws.close()
CloseCall(w) == <<[sock |-> w, type |-> "close", symbols |-> <<>>]>>

\* FinnhubWebSocket.handlePing
PingMessages(socks, w) ==
  IF IsOpen(socks, w) THEN <<[sock |-> w, type |-> "ping", symbols |-> <<>>]>> ELSE <<>>

----------------------------------------------------------------------------
(* The state after construction: field initialisers of both classes *)

ClientInit ==
  /\ provider \in Providers
  /\ sockets = [s \in SocketIds |-> FreeSocket]
  /\ dispatching = 0
  /\ timers = <<>>
  /\ ws = 0
  /\ symbols = <<>>
  /\ messageCallbacks = <<>>
  /\ errorCallback = "null"
  /\ connectCallback = "null"
  /\ reconnectAttempts = 0
  /\ isConnecting = FALSE
  /\ pingInterval = FALSE
  /\ intervals = 0
  /\ rateLimitedUntil = Null
  /\ effects = Quiet("constructor")
  /\ disconnected = FALSE
  /\ calls = 0
  /\ unsubscribers = <<>>

\* the chart state before any snapshot or tick has arrived
CandleIdle ==
  /\ timeframe = "1D"
  /\ historical = <<>>
  /\ candles = <<>>
  /\ folded = <<>>

Init == ClientInit /\ CandleIdle

----------------------------------------------------------------------------
(* connect(symbols): the body of the promise executor.  op names the caller *)
(* (the application, or the reconnect timer of onclose).                    *)

\* (variant: the connecting flag left out of the test)
AlreadyOpen == IsOpen(sockets, ws)

\* if (this.isConnecting || (this.ws && this.ws.readyState === WebSocket.OPEN))
AlreadyConnected == isConnecting \/ IsOpen(sockets, ws)

\* lines 78-91 of FinnhubWebSocket.connect, 53-66 of EODHDWebSocket.connect;
\* expired tells that the cooldown-expired branch ran before
OpenTransport(syms, op, expired) ==
  IF AlreadyConnected
  THEN /\ effects' = [Quiet(op) EXCEPT !.result = "resolved", !.expired = expired]
       /\ UNCHANGED <<sockets, ws, symbols, isConnecting>>
  ELSE /\ FreeSlots # {}
       /\ sockets' = [sockets EXCEPT ![NewSocket] =
                        [readyState |-> "CONNECTING", symbols |-> syms]]
       /\ ws' = NewSocket
       /\ symbols' = syms
       /\ isConnecting' = TRUE
       /\ effects' = [Quiet(op) EXCEPT !.result = "pending", !.expired = expired]

\* if (this.rateLimitedUntil && Date.now() < this.rateLimitedUntil)
CooldownActive == rateLimitedUntil # Null /\ now < rateLimitedUntil

\* (variant: > in place of >=)
CooldownExpiredLate == rateLimitedUntil # Null /\ now > rateLimitedUntil

\* if (this.rateLimitedUntil && Date.now() >= this.rateLimitedUntil)
CooldownExpired == rateLimitedUntil # Null /\ now >= rateLimitedUntil

FinnhubConnect(syms, op) ==
  IF CooldownActive
  THEN LET error == RateLimitedError(CeilMinutes(rateLimitedUntil - now))
       IN /\ effects' = [Quiet(op) EXCEPT !.errors = Report(error),
                                             !.result = "rejected",
                                             !.rejection = error]
          /\ UNCHANGED <<sockets, ws, symbols, isConnecting,
                         reconnectAttempts, rateLimitedUntil>>
  ELSE /\ IF CooldownExpired
          THEN rateLimitedUntil' = Null /\ reconnectAttempts' = 0
          ELSE UNCHANGED <<rateLimitedUntil, reconnectAttempts>>
       /\ OpenTransport(syms, op, CooldownExpired)

EodhdConnect(syms, op) ==
  /\ OpenTransport(syms, op, FALSE)
  /\ UNCHANGED <<reconnectAttempts, rateLimitedUntil>>

connect(syms, op) ==
  /\ IF provider = "finnhub" THEN FinnhubConnect(syms, op) ELSE EodhdConnect(syms, op)
  /\ UNCHANGED <<messageCallbacks, errorCallback, connectCallback, pingInterval,
                 intervals>>

----------------------------------------------------------------------------
(* Transport callbacks.  s is the socket the handler was attached to, which *)
(* need not be this.ws; socks is the socket table when the handler runs.    *)

\* FinnhubWebSocket.connect, this.ws.onopen
FinnhubOnOpen(s, socks) ==
  /\ Len(timers) < MaxTimers
  /\ isConnecting' = FALSE
  /\ reconnectAttempts' = 0
  /\ rateLimitedUntil' = Null
  /\ timers' = Append(timers, SetupTimer(s, sockets[s].symbols))
  /\ effects' = [Quiet("onopen") EXCEPT !.result = "resolved"]
  /\ UNCHANGED <<ws, symbols, pingInterval, intervals>>

\* EODHDWebSocket.connect, this.ws.onopen
EodhdOnOpen(s, socks) ==
  /\ isConnecting' = FALSE
  /\ reconnectAttempts' = 0
  /\ effects' = [Quiet("onopen") EXCEPT
                   !.sent = EodhdMessages(socks, ws, "subscribe", sockets[s].symbols),
                   !.notified = (connectCallback # "null"),
                   !.result = "resolved"]
  /\ UNCHANGED <<ws, symbols, pingInterval, intervals, rateLimitedUntil, timers>>

\* this.ws.onerror, the same in both classes
OnError(s) ==
  /\ isConnecting' = FALSE
  /\ effects' = [Quiet("onerror") EXCEPT !.errors = Report(ConnectionError),
                                            !.result = "rejected",
                                            !.rejection = ConnectionError]
  /\ UNCHANGED <<ws, symbols, reconnectAttempts, pingInterval, intervals,
                 rateLimitedUntil, timers>>

\* stopPingInterval()
StopPingInterval ==
  /\ pingInterval' = FALSE
  /\ intervals' = IF pingInterval THEN intervals - 1 ELSE intervals

\* const isRateLimited = event.reason && event.reason.includes('429')
IsRateLimited(reason) == reason # <<>> /\ Includes(reason, "429")

\* (variant: the rate-limit signal left out of the condition)
NoReconnectByCode(code, rateLimited) ==
  code = CLOSE_NORMAL \/ code = CLOSE_POLICY \/ code = CLOSE_INTERNAL

\* event.code === 1000 || event.code === 1008 || event.code === 1011 || isRateLimited
NoReconnect(code, rateLimited) ==
  code = CLOSE_NORMAL \/ code = CLOSE_POLICY \/ code = CLOSE_INTERNAL \/ rateLimited

\* event.code === 1008 || (event.reason && event.reason.includes('403'))
IsAuthFailure(code, reason) ==
  code = CLOSE_POLICY \/ (reason # <<>> /\ Includes(reason, "403"))

\* (variant: <= in place of <)
MayReconnectAtCap(attempts) == attempts <= maxReconnectAttempts

\* if (this.reconnectAttempts < this.maxReconnectAttempts)
MayReconnect(attempts) == attempts < maxReconnectAttempts

\* (variant: the exponent not reduced by one)
BackoffDelayDoubled(attempts) == reconnectDelay * Pow2(attempts)

\* this.reconnectDelay * Math.pow(2, this.reconnectAttempts - 1), after the increment
BackoffDelay(attempts) == reconnectDelay * Pow2(attempts - 1)

\* FinnhubWebSocket.connect, this.ws.onclose
FinnhubOnClose(s, code, reason, wasClean) ==
  LET isRateLimited == IsRateLimited(reason)
      backoffDelay == BackoffDelay(reconnectAttempts + 1)
      done == Quiet("onclose")
  IN /\ StopPingInterval
     /\ isConnecting' = FALSE
     /\ ws' = 0
     /\ UNCHANGED symbols
     /\ IF NoReconnect(code, isRateLimited)
        THEN /\ IF isRateLimited
                THEN /\ rateLimitedUntil' = now + RATE_LIMIT_COOLDOWN
                     /\ reconnectAttempts' = maxReconnectAttempts
                     /\ effects' = [done EXCEPT !.errors = Report(RateLimitExceededError)]
                ELSE /\ UNCHANGED <<rateLimitedUntil, reconnectAttempts>>
                     /\ IF IsAuthFailure(code, reason)
                        THEN effects' = [done EXCEPT !.errors = Report(AuthenticationError)]
                        ELSE effects' = [done EXCEPT !.errors =
                                           IF ~wasClean THEN Report(ClosedError(reason))
                                           ELSE <<>>]
             /\ UNCHANGED timers
        ELSE /\ UNCHANGED rateLimitedUntil
             /\ IF MayReconnect(reconnectAttempts)
                THEN /\ Len(timers) < MaxTimers
                     /\ reconnectAttempts' = reconnectAttempts + 1
                     /\ timers' = Append(timers, ReconnectTimer(s, backoffDelay))
                     /\ effects' = done
                ELSE /\ UNCHANGED <<reconnectAttempts, timers>>
                     /\ effects' = [done EXCEPT !.errors = Report(MaxAttemptsError)]

\* EODHDWebSocket.connect, this.ws.onclose (the event is not inspected)
EodhdOnClose(s, code, reason, wasClean) ==
  LET done == Quiet("onclose")
  IN /\ isConnecting' = FALSE
     /\ ws' = 0
     /\ UNCHANGED <<symbols, pingInterval, intervals, rateLimitedUntil>>
     /\ IF MayReconnect(reconnectAttempts)
        THEN /\ Len(timers) < MaxTimers
             /\ reconnectAttempts' = reconnectAttempts + 1
             /\ timers' = Append(timers, ReconnectTimer(s, reconnectDelay))
             /\ effects' = done
        ELSE /\ UNCHANGED <<reconnectAttempts, timers>>
             /\ effects' = done

onclose(s, code, reason, wasClean) ==
  IF provider = "finnhub" THEN FinnhubOnClose(s, code, reason, wasClean)
  ELSE EodhdOnClose(s, code, reason, wasClean)

----------------------------------------------------------------------------
(* disconnect() *)

\* FinnhubWebSocket.disconnect
FinnhubDisconnect ==
  /\ StopPingInterval
  /\ IF ws # 0
     THEN /\ sockets' = [sockets EXCEPT ![ws].readyState = "CLOSING"]
          /\ effects' = [Quiet("disconnect") EXCEPT
                           !.sent = (IF Len(symbols) > 0
                                     THEN FinnhubMessages(sockets, ws, "unsubscribe", symbols)
                                     ELSE <<>>) \o CloseCall(ws)]
     ELSE /\ UNCHANGED sockets
          /\ effects' = Quiet("disconnect")
  /\ ws' = 0
  /\ messageCallbacks' = <<>>
  /\ reconnectAttempts' = maxReconnectAttempts
  /\ UNCHANGED <<symbols, isConnecting, rateLimitedUntil>>

\* EODHDWebSocket.disconnect
EodhdDisconnect ==
  /\ IF ws # 0
     THEN /\ sockets' = [sockets EXCEPT ![ws].readyState = "CLOSING"]
          /\ effects' = [Quiet("disconnect") EXCEPT !.sent = CloseCall(ws)]
     ELSE /\ UNCHANGED sockets
          /\ effects' = Quiet("disconnect")
  /\ ws' = 0
  /\ messageCallbacks' = <<>>
  /\ reconnectAttempts' = maxReconnectAttempts
  /\ UNCHANGED <<symbols, isConnecting, rateLimitedUntil, pingInterval, intervals>>

----------------------------------------------------------------------------
(* Timer callbacks *)

\* setTimeout callbacks run in order of their due time, then of scheduling
NextTimer(i) ==
  /\ i \in 1..Len(timers)
  /\ timers[i].due <= now
  /\ \A j \in 1..Len(timers) :
       j # i => \/ timers[j].due > timers[i].due
                \/ (timers[j].due = timers[i].due /\ j > i)

\* startPingInterval()
StartPingInterval ==
  /\ pingInterval' = TRUE
  /\ intervals' = (IF pingInterval THEN intervals - 1 ELSE intervals) + 1

\* FinnhubWebSocket.connect, the setTimeout(..., 100) callback of onopen
DelayedSetup(syms) ==
  /\ StartPingInterval
  /\ effects' = [Quiet("setup") EXCEPT
                   !.sent = FinnhubMessages(sockets, ws, "subscribe", syms),
                   !.notified = (connectCallback # "null")]
  /\ UNCHANGED <<sockets, ws, symbols, messageCallbacks, errorCallback,
                 connectCallback, reconnectAttempts, isConnecting, rateLimitedUntil>>

----------------------------------------------------------------------------
(* Actions: calls of the application *)

\* The application registers both callbacks before it first connects
\* (index.tsx: ws.onConnect, ws.onError, then ws.connect)
Registered == connectCallback # "null" /\ errorCallback # "null"

Connect(syms) ==
  /\ dispatching = 0
  /\ Registered
  /\ calls < MaxCalls
  /\ connect(syms, "connect")
  /\ disconnected' = FALSE
  /\ calls' = calls + 1
  /\ UNCHANGED <<provider, dispatching, timers>>
  /\ UNCHANGED <<unsubscribers, candleVars>>

Disconnect ==
  /\ dispatching = 0
  /\ Registered
  /\ calls < MaxCalls
  /\ IF provider = "finnhub" THEN FinnhubDisconnect ELSE EodhdDisconnect
  /\ disconnected' = TRUE
  /\ calls' = calls + 1
  /\ UNCHANGED <<provider, dispatching, timers, errorCallback, connectCallback>>
  /\ UNCHANGED <<unsubscribers, candleVars>>

\* onError(callback)
OnErrorCallback ==
  /\ dispatching = 0
  /\ errorCallback = "null"
  /\ connectCallback # "null"
  /\ errorCallback' = "onErrorHandler"
  /\ effects' = Quiet("onError")
  /\ UNCHANGED <<provider, sockets, dispatching, timers, ws, symbols,
                 messageCallbacks, connectCallback, reconnectAttempts, isConnecting,
                 pingInterval, intervals, rateLimitedUntil, disconnected, calls>>
  /\ UNCHANGED <<unsubscribers, candleVars>>

\* onConnect(callback)
OnConnectCallback ==
  /\ dispatching = 0
  /\ connectCallback = "null"
  /\ connectCallback' = "onConnectHandler"
  /\ effects' = Quiet("onConnect")
  /\ UNCHANGED <<provider, sockets, dispatching, timers, ws, symbols,
                 messageCallbacks, errorCallback, reconnectAttempts, isConnecting,
                 pingInterval, intervals, rateLimitedUntil, disconnected, calls>>
  /\ UNCHANGED <<unsubscribers, candleVars>>

(* Actions: events of the transport *)

\* the handshake completes: readyState becomes OPEN, the open event is dispatched
TransportOpen(s) ==
  /\ dispatching = 0
  /\ sockets[s].readyState = "CONNECTING"
  /\ LET socks == [sockets EXCEPT ![s].readyState = "OPEN"]
     IN /\ sockets' = socks
        /\ IF provider = "finnhub" THEN FinnhubOnOpen(s, socks) ELSE EodhdOnOpen(s, socks)
  /\ UNCHANGED <<provider, dispatching, messageCallbacks, errorCallback,
                 connectCallback, disconnected, calls>>
  /\ UNCHANGED <<unsubscribers, candleVars>>

\* (variant: the close event also empties the handler map)
TransportCloseClearing(s, code, reason, wasClean) ==
  /\ dispatching = 0
  /\ sockets[s].readyState \in {"OPEN", "CLOSING"}
  /\ sockets' = [sockets EXCEPT ![s] = ClosedSocket]
  /\ onclose(s, code, reason, wasClean)
  /\ messageCallbacks' = <<>>
  /\ UNCHANGED <<provider, dispatching, errorCallback, connectCallback, disconnected,
                 calls>>
  /\ UNCHANGED <<unsubscribers, candleVars>>

\* the connection ends without a failure: the close event is dispatched and
\* the socket delivers nothing more
TransportClose(s, code, reason, wasClean) ==
  /\ dispatching = 0
  /\ sockets[s].readyState \in {"OPEN", "CLOSING"}
  /\ sockets' = [sockets EXCEPT ![s] = ClosedSocket]
  /\ onclose(s, code, reason, wasClean)
  /\ UNCHANGED <<provider, dispatching, messageCallbacks, errorCallback,
                 connectCallback, disconnected, calls>>
  /\ UNCHANGED <<unsubscribers, candleVars>>

\* the connection fails: readyState becomes CLOSED, the error event is
\* dispatched and the close event follows in the same turn
TransportFail(s) ==
  /\ dispatching = 0
  /\ sockets[s].readyState \in {"CONNECTING", "OPEN", "CLOSING"}
  /\ sockets' = [sockets EXCEPT ![s].readyState = "CLOSED"]
  /\ dispatching' = s
  /\ OnError(s)
  /\ UNCHANGED <<provider, messageCallbacks, errorCallback, connectCallback,
                 disconnected, calls>>
  /\ UNCHANGED <<unsubscribers, candleVars>>

CloseAfterError(reason) ==
  /\ dispatching # 0
  /\ sockets' = [sockets EXCEPT ![dispatching] = ClosedSocket]
  /\ dispatching' = 0
  /\ onclose(dispatching, CLOSE_ABNORMAL, reason, FALSE)
  /\ UNCHANGED <<provider, messageCallbacks, errorCallback, connectCallback,
                 disconnected, calls>>
  /\ UNCHANGED <<unsubscribers, candleVars>>

(* Actions: timers and the clock *)

\* onclose's setTimeout callback: this.connect(this.symbols).catch(console.error)
ReconnectTimerFires(i) ==
  /\ dispatching = 0
  /\ NextTimer(i)
  /\ timers[i].kind = "reconnect"
  /\ timers' = RemoveAt(timers, i)
  /\ connect(symbols, "reconnect")
  /\ UNCHANGED <<provider, dispatching, disconnected, calls>>
  /\ UNCHANGED <<unsubscribers, candleVars>>

SetupTimerFires(i) ==
  /\ dispatching = 0
  /\ NextTimer(i)
  /\ timers[i].kind = "setup"
  /\ timers' = RemoveAt(timers, i)
  /\ DelayedSetup(timers[i].symbols)
  /\ UNCHANGED <<provider, dispatching, disconnected, calls>>
  /\ UNCHANGED <<unsubscribers, candleVars>>

\* the setInterval callback of startPingInterval: handlePing()
PingIntervalFires ==
  /\ dispatching = 0
  /\ intervals > 0
  /\ effects' = [Quiet("ping") EXCEPT !.sent = PingMessages(sockets, ws)]
  /\ UNCHANGED <<provider, sockets, dispatching, timers, clientVars, intervals,
                 disconnected, calls>>
  /\ UNCHANGED <<unsubscribers, candleVars>>

\* d milliseconds pass, never beyond a pending timer's due time.  The clock
\* is read only against pending deadlines, so it moves only while one is
\* pending; an expired cooldown deadline stays at the present instant.
Elapse(deadline, d) == IF deadline - d < now THEN now ELSE deadline - d

Tick ==
  /\ dispatching = 0
  /\ timers # <<>> \/ (rateLimitedUntil # Null /\ rateLimitedUntil > now)
  /\ \E d \in {TickStep, rateLimitedUntil - now}
               \cup {timers[i].due - now : i \in 1..Len(timers)} :
       /\ d > 0
       /\ \A i \in 1..Len(timers) : now + d <= timers[i].due
       /\ timers' = [i \in 1..Len(timers) |->
                       [timers[i] EXCEPT !.due = Elapse(timers[i].due, d)]]
       /\ rateLimitedUntil' = IF rateLimitedUntil = Null THEN Null
                              ELSE Elapse(rateLimitedUntil, d)
  /\ effects' = Quiet("tick")
  /\ UNCHANGED <<provider, sockets, dispatching, ws, symbols, messageCallbacks,
                 errorCallback, connectCallback, reconnectAttempts, isConnecting,
                 pingInterval, intervals, disconnected, calls>>
  /\ UNCHANGED <<unsubscribers, candleVars>>

Next ==
  \/ \E syms \in SymbolLists : Connect(syms)
  \/ Disconnect
  \/ OnErrorCallback
  \/ OnConnectCallback
  \/ \E s \in SocketIds : TransportOpen(s)
  \/ \E s \in SocketIds, code \in CloseCodes, reason \in Reasons, wasClean \in BOOLEAN :
       TransportClose(s, code, reason, wasClean)
  \/ \E s \in SocketIds : TransportFail(s)
  \/ \E reason \in Reasons : CloseAfterError(reason)
  \/ \E i \in 1..Len(timers) : ReconnectTimerFires(i)
  \/ \E i \in 1..Len(timers) : SetupTimerFires(i)
  \/ PingIntervalFires
  \/ Tick

Spec == Init /\ [][Next]_vars

----------------------------------------------------------------------------
(* Price handlers and inbound frames: onPriceUpdate, the function it        *)
(* returns, and onmessage of both clients.  messageCallbacks is a Map: its  *)
(* entries, in insertion order, each a symbol with its list of handlers.    *)
(* A handler returns normally and calls nothing of the client.              *)

\* symbols the application registers handlers for, and its handler functions
HandlerSymbols == {"AAPL", "MSFT"}
Callbacks == {"f", "g"}

\* messageCallbacks.has(symbol)
Has(map, symbol) == \E i \in 1..Len(map) : map[i].symbol = symbol

\* messageCallbacks.get(symbol), for a symbol the map has
Get(map, symbol) ==
  map[CHOOSE i \in 1..Len(map) : map[i].symbol = symbol].callbacks

\* messageCallbacks.set(symbol, list)
Set(map, symbol, list) ==
  IF Has(map, symbol)
  THEN [i \in 1..Len(map) |->
          IF map[i].symbol = symbol THEN [map[i] EXCEPT !.callbacks = list] ELSE map[i]]
  ELSE Append(map, [symbol |-> symbol, callbacks |-> list])

\* messageCallbacks.delete(symbol)
Delete(map, symbol) ==
  LET Other(entry) == entry.symbol # symbol
  IN SelectSeq(map, Other)

\* an element of a handler list: the function and (history) the number of
\* the onPriceUpdate call that pushed it
Handler(callback, reg) == [callback |-> callback, reg |-> reg]

\* callbacks.indexOf(callback): the 0-based position of the first element
\* that is this function, -1 if there is none
IndexOf(callbacks, callback) ==
  IF \E j \in 1..Len(callbacks) : callbacks[j].callback = callback
  THEN (CHOOSE j \in 1..Len(callbacks) :
          /\ callbacks[j].callback = callback
          /\ \A k \in 1..(j - 1) : callbacks[k].callback # callback) - 1
  ELSE 0 - 1

\* onPriceUpdate(symbol, callback): the map after the push
Registering(map, symbol, callback, reg) ==
  LET created == IF Has(map, symbol) THEN map ELSE Set(map, symbol, <<>>)
  IN Set(created, symbol, Append(Get(created, symbol), Handler(callback, reg)))

\* (variant: the entry of a symbol is kept when its list becomes empty)
UnregisteringKeepingEntry(map, symbol, callback) ==
  IF ~Has(map, symbol) THEN map
  ELSE LET callbacks == Get(map, symbol)
           index == IndexOf(callbacks, callback)
       IN Set(map, symbol,
              IF index > 0 - 1 THEN RemoveAt(callbacks, index + 1) ELSE callbacks)

\* the function returned by onPriceUpdate(symbol, callback): the map after
\* a call of it
Unregistering(map, symbol, callback) ==
  IF ~Has(map, symbol) THEN map
  ELSE LET callbacks == Get(map, symbol)
           index == IndexOf(callbacks, callback)
           spliced == IF index > 0 - 1 THEN RemoveAt(callbacks, index + 1)
                      ELSE callbacks
       IN IF Len(spliced) = 0 THEN Delete(map, symbol)
          ELSE Set(map, symbol, spliced)

\* parseInt of a string of decimal digits
RECURSIVE ParseInt(_)
ParseInt(digits) ==
  IF Len(digits) = 1 THEN digits[1]
  ELSE ParseInt(SubSeq(digits, 1, Len(digits) - 1)) * 10 + digits[Len(digits)]

\* handleTradeMessage: the StockPrice of a trade
FinnhubStockPrice(trade) ==
  [timestamp |-> trade.t, price |-> trade.p, volume |-> trade.v]

\* handleMessage: the StockPrice of a message
EodhdStockPrice(message) ==
  [timestamp |-> ParseInt(message.t) * 1000, price |-> message.p,
   volume |-> message.v, open |-> message.o, high |-> message.h,
   low |-> message.l, close |-> message.c]

\* (variant: the handlers of the symbol are called last registered first)
DeliveriesNewestFirst(map, symbol, stockPrice) ==
  IF ~Has(map, symbol) THEN <<>>
  ELSE LET callbacks == Get(map, symbol)
       IN [i \in 1..Len(callbacks) |->
             [callback |-> callbacks[Len(callbacks) + 1 - i].callback,
              reg |-> callbacks[Len(callbacks) + 1 - i].reg,
              tick |-> stockPrice]]

\* callbacks.forEach((callback) => callback(stockPrice)): the calls made
Deliveries(map, symbol, stockPrice) ==
  IF ~Has(map, symbol) THEN <<>>
  ELSE LET callbacks == Get(map, symbol)
       IN [i \in 1..Len(callbacks) |->
             [callback |-> callbacks[i].callback, reg |-> callbacks[i].reg,
              tick |-> stockPrice]]

\* FinnhubWebSocket.handleTradeMessage: message.data.forEach
RECURSIVE handleTradeMessage(_, _)
handleTradeMessage(map, trades) ==
  IF trades = <<>> THEN <<>>
  ELSE Deliveries(map, trades[1].s, FinnhubStockPrice(trades[1]))
         \o handleTradeMessage(map, Tail(trades))

\* EODHDWebSocket.handleMessage
handleMessage(map, message) ==
  Deliveries(map, message.s, EodhdStockPrice(message))

\* new Error(data.msg || 'Unknown error')
ServerError == [message |-> "data.msg", minutes |-> 0, reason |-> <<>>]

\* (variant: a frame that cannot be parsed is reported to the error callback)
ParseFailureReported == [Quiet("onmessage") EXCEPT !.errors = Report(ConnectionError)]

\* the catch block of onmessage: console.error only
ParseFailure == Quiet("onmessage")

\* FinnhubWebSocket onmessage
FinnhubOnMessage(data) ==
  CASE data.kind = "undecodable" -> ParseFailure
    [] data.kind = "ping" ->
         [Quiet("onmessage") EXCEPT !.sent = PingMessages(sockets, ws)]
    [] data.kind = "trade" ->
         [Quiet("onmessage") EXCEPT
            !.invoked = handleTradeMessage(messageCallbacks, data.data)]
    [] data.kind = "error" ->
         [Quiet("onmessage") EXCEPT !.errors = Report(ServerError)]
    [] OTHER -> Quiet("onmessage")

\* EODHDWebSocket onmessage
EodhdOnMessage(data) ==
  CASE data.kind = "undecodable" -> ParseFailure
    [] data.kind = "trade" ->
         [Quiet("onmessage") EXCEPT
            !.invoked = handleMessage(messageCallbacks, data.data[1])]
    [] OTHER -> Quiet("onmessage")

(* Inbound frames.  "undecodable" is text JSON.parse throws on; "other" is
   JSON that is no ping, trade or error (for EODHD: that has no symbol).
   The trades differ in price and time, so that the tick a handler receives
   tells which trade it was called for. *)
FinnhubTrades ==
  {[s |-> "AAPL", p |-> 9, t |-> 1000, v |-> 5],
   [s |-> "AAPL", p |-> 11, t |-> 2000, v |-> 5],
   [s |-> "MSFT", p |-> 12, t |-> 3000, v |-> 5]}

FinnhubFrames ==
  {[kind |-> k, data |-> <<>>] : k \in {"undecodable", "ping", "error", "other"}}
    \cup {[kind |-> "trade", data |-> <<a>>] : a \in FinnhubTrades}
    \cup {[kind |-> "trade", data |-> pair] :
            pair \in {q \in FinnhubTrades \X FinnhubTrades : q[1] # q[2]}}

EodhdTicks ==
  {[s |-> "AAPL", p |-> 9, t |-> <<1>>, v |-> 5, o |-> 0, h |-> 0, l |-> 0, c |-> 0],
   [s |-> "AAPL", p |-> 11, t |-> <<1, 2>>, v |-> 0, o |-> 10, h |-> 12, l |-> 9,
    c |-> 11],
   [s |-> "MSFT", p |-> 12, t |-> <<3>>, v |-> 5, o |-> 0, h |-> 0, l |-> 0, c |-> 0]}

EodhdFrames ==
  {[kind |-> k, data |-> <<>>] : k \in {"undecodable", "other"}}
    \cup {[kind |-> "trade", data |-> <<a>>] : a \in EodhdTicks}

Frames == IF provider = "finnhub" THEN FinnhubFrames ELSE EodhdFrames

\* onPriceUpdate(symbol, callback)
OnPriceUpdate(symbol, callback) ==
  /\ dispatching = 0
  /\ Len(unsubscribers) < MaxHandlers
  /\ messageCallbacks' =
       Registering(messageCallbacks, symbol, callback, Len(unsubscribers) + 1)
  /\ unsubscribers' = Append(unsubscribers, [symbol |-> symbol, callback |-> callback])
  /\ effects' = Quiet("onPriceUpdate")
  /\ UNCHANGED <<provider, sockets, dispatching, timers, ws, symbols, errorCallback,
                 connectCallback, reconnectAttempts, isConnecting, pingInterval,
                 intervals, rateLimitedUntil, disconnected, calls>>
  /\ UNCHANGED candleVars

\* the application calls the function the i-th onPriceUpdate returned
CallUnsubscriber(i) ==
  /\ dispatching = 0
  /\ i \in 1..Len(unsubscribers)
  /\ messageCallbacks' =
       Unregistering(messageCallbacks, unsubscribers[i].symbol, unsubscribers[i].callback)
  /\ effects' = [Quiet("unsubscriber") EXCEPT !.closure = i]
  /\ UNCHANGED <<provider, sockets, dispatching, timers, ws, symbols, errorCallback,
                 connectCallback, reconnectAttempts, isConnecting, pingInterval,
                 intervals, rateLimitedUntil, disconnected, calls, unsubscribers>>
  /\ UNCHANGED candleVars

\* a frame arrives on socket s: the message event is dispatched
TransportMessage(s, data) ==
  /\ dispatching = 0
  /\ sockets[s].readyState \in {"OPEN", "CLOSING"}
  /\ effects' = [(IF provider = "finnhub" THEN FinnhubOnMessage(data)
                  ELSE EodhdOnMessage(data)) EXCEPT !.frame = data]
  /\ UNCHANGED <<provider, sockets, dispatching, timers, clientVars, intervals,
                 disconnected, calls, unsubscribers>>
  /\ UNCHANGED candleVars

DispatchInit == Init

DispatchNext ==
  \/ OnErrorCallback
  \/ OnConnectCallback
  \/ \E syms \in SymbolLists : Connect(syms)
  \/ Disconnect
  \/ \E s \in SocketIds : TransportOpen(s)
  \/ \E symbol \in HandlerSymbols, callback \in Callbacks : OnPriceUpdate(symbol, callback)
  \/ \E i \in 1..MaxHandlers : CallUnsubscriber(i)
  \/ \E s \in SocketIds, data \in Frames : TransportMessage(s, data)

DispatchSpec == DispatchInit /\ [][DispatchNext]_vars

(* Handlers that unsubscribe while a tick is dispatched.  callbacks.forEach
   visits the indices 0 .. length-at-start - 1 of the live array and skips
   an index the array no longer has; the returned unsubscribe function
   splices that same array.  A handler in SelfRemoving calls, when invoked,
   the function its own onPriceUpdate returned; every other handler calls
   nothing of the client. *)
SelfRemoving == {"once"}

\* callbacks.forEach((callback) => callback(stockPrice)) from 1-based index k
\* on, length0 being the length when forEach started: the calls made and
\* the array afterwards
RECURSIVE ForEach(_, _, _, _)
ForEach(callbacks, k, length0, stockPrice) ==
  IF k > length0 \/ k > Len(callbacks)
  THEN [invoked |-> <<>>, callbacks |-> callbacks]
  ELSE LET made == [callback |-> callbacks[k].callback, reg |-> callbacks[k].reg,
                    tick |-> stockPrice]
           index == IndexOf(callbacks, callbacks[k].callback)
           spliced == IF callbacks[k].callback \in SelfRemoving
                      THEN RemoveAt(callbacks, index + 1)
                      ELSE callbacks
           rest == ForEach(spliced, k + 1, length0, stockPrice)
       IN [invoked |-> <<made>> \o rest.invoked, callbacks |-> rest.callbacks]

\* the dispatch of one tick to the handlers of its symbol: the calls made
\* and the handler map afterwards
DispatchTick(map, symbol, stockPrice) ==
  IF ~Has(map, symbol) THEN [invoked |-> <<>>, map |-> map]
  ELSE LET done == ForEach(Get(map, symbol), 1, Len(Get(map, symbol)), stockPrice)
       IN [invoked |-> done.invoked,
           map |-> IF Len(done.callbacks) = 0 THEN Delete(map, symbol)
                   ELSE Set(map, symbol, done.callbacks)]

\* a frame with one trade arrives on socket s
TransportTrade(s, data) ==
  /\ dispatching = 0
  /\ sockets[s].readyState \in {"OPEN", "CLOSING"}
  /\ LET done == DispatchTick(messageCallbacks, data.data[1].s,
                              IF provider = "finnhub"
                              THEN FinnhubStockPrice(data.data[1])
                              ELSE EodhdStockPrice(data.data[1]))
     IN /\ messageCallbacks' = done.map
        /\ effects' = [Quiet("onmessage") EXCEPT !.frame = data,
                                                  !.invoked = done.invoked]
  /\ UNCHANGED <<provider, sockets, dispatching, timers, ws, symbols, errorCallback,
                 connectCallback, reconnectAttempts, isConnecting, pingInterval,
                 intervals, rateLimitedUntil, disconnected, calls, unsubscribers>>
  /\ UNCHANGED candleVars

OneTradeFrames == {data \in Frames : data.kind = "trade" /\ Len(data.data) = 1}

UnsubscribingInit == Init

UnsubscribingNext ==
  \/ OnErrorCallback
  \/ OnConnectCallback
  \/ \E syms \in SymbolLists : Connect(syms)
  \/ \E s \in SocketIds : TransportOpen(s)
  \/ \E symbol \in HandlerSymbols, callback \in Callbacks \cup SelfRemoving :
       OnPriceUpdate(symbol, callback)
  \/ \E s \in SocketIds, data \in OneTradeFrames : TransportTrade(s, data)

UnsubscribingSpec == UnsubscribingInit /\ [][UnsubscribingNext]_vars

(* Handlers across an automatic reconnection: the client with its handlers,
   unexpected closes and failures of the transport, the reconnect and setup
   timers, and one-trade frames.  The application connects with one symbol
   list and registers handlers for AAPL; MSFT has none. *)
UnexpectedClose == [code |-> CLOSE_ABNORMAL, reason |-> <<>>, wasClean |-> FALSE]

TradeFrames == {data \in OneTradeFrames : data.data[1].p # 11}

ReconnectInit == Init

ReconnectNext ==
  \/ OnErrorCallback
  \/ OnConnectCallback
  \/ Connect(<<"AAPL", "MSFT">>)
  \/ Disconnect
  \/ \E s \in SocketIds : TransportOpen(s)
  \/ \E s \in SocketIds :
       TransportClose(s, UnexpectedClose.code, UnexpectedClose.reason,
                      UnexpectedClose.wasClean)
  \/ \E s \in SocketIds : TransportFail(s)
  \/ CloseAfterError(UnexpectedClose.reason)
  \/ \E i \in 1..Len(timers) : ReconnectTimerFires(i)
  \/ \E i \in 1..Len(timers) : SetupTimerFires(i)
  \/ Tick
  \/ OnPriceUpdate("AAPL", "f")
  \/ \E i \in 1..MaxHandlers : CallUnsubscriber(i)
  \/ \E s \in SocketIds, data \in TradeFrames : TransportMessage(s, data)

ReconnectSpec == ReconnectInit /\ [][ReconnectNext]_vars

----------------------------------------------------------------------------
(* The candle builder and the merge: src/utils/candleUtils.ts, as the       *)
(* dashboard uses them.  A candle is a ChartData record; an optional field  *)
(* that is absent holds 0, which the code's `||` treats like undefined.     *)
(* Times are epoch milliseconds.                                            *)

\* getCandlePeriodMs(timeframe)
getCandlePeriodMs(tf) ==
  CASE tf = "1H" -> 60 * 60 * 1000
    [] tf = "1D" -> 24 * 60 * 60 * 1000
    [] tf = "1W" -> 7 * 24 * 60 * 60 * 1000
    [] tf = "1M" -> 30 * 24 * 60 * 60 * 1000
    [] tf = "1Y" -> 365 * 24 * 60 * 60 * 1000
    [] OTHER -> 24 * 60 * 60 * 1000

\* (variant: Math.round in place of Math.floor)
NearestCandleStart(timestamp, tf) ==
  ((timestamp + getCandlePeriodMs(tf) \div 2) \div getCandlePeriodMs(tf))
    * getCandlePeriodMs(tf)

\* getCandleStartTimestamp(timestamp, timeframe): Math.floor(t / p) * p
getCandleStartTimestamp(timestamp, tf) ==
  (timestamp \div getCandlePeriodMs(tf)) * getCandlePeriodMs(tf)

\* a || b on numbers
Or(a, b) == IF a = 0 THEN b ELSE a

\* Math.max, Math.min
Max(a, b) == IF a >= b THEN a ELSE b
Min(a, b) == IF a <= b THEN a ELSE b

\* the candle a tick opens (lines 87-95)
NewCandle(tick, candleStart) ==
  [timestamp |-> candleStart, value |-> tick.price, open |-> tick.price,
   high |-> tick.price, low |-> tick.price, close |-> tick.price,
   volume |-> Or(tick.volume, 0)]

\* (variant: the volume is replaced, not accumulated)
UpdatedCandleLastVolume(lastCandle, tick, candleStart) ==
  [lastCandle EXCEPT !.timestamp = candleStart,
                     !.value = tick.price,
                     !.close = tick.price,
                     !.high = Max(Or(lastCandle.high, lastCandle.value), tick.price),
                     !.low = Min(Or(lastCandle.low, lastCandle.value), tick.price),
                     !.volume = Or(tick.volume, 0)]

\* (variant: only the close moves, the extremes are kept)
UpdatedCandleCloseOnly(lastCandle, tick, candleStart) ==
  [lastCandle EXCEPT !.timestamp = candleStart,
                     !.value = tick.price,
                     !.close = tick.price,
                     !.volume = Or(lastCandle.volume, 0) + Or(tick.volume, 0)]

\* the last candle updated by a tick of its period (lines 72-80)
UpdatedCandle(lastCandle, tick, candleStart) ==
  [lastCandle EXCEPT !.timestamp = candleStart,
                     !.value = tick.price,
                     !.close = tick.price,
                     !.high = Max(Or(lastCandle.high, lastCandle.value), tick.price),
                     !.low = Min(Or(lastCandle.low, lastCandle.value), tick.price),
                     !.volume = Or(lastCandle.volume, 0) + Or(tick.volume, 0)]

\* (variant: the first 1000 candles are kept)
KeepFirst(series) ==
  IF Len(series) > MaxCandles
  THEN SubSeq(series, 1, MaxCandles)
  ELSE series

\* newCandles.slice(-1000) when the series has grown beyond 1000
KeepLast(series) ==
  IF Len(series) > MaxCandles
  THEN SubSeq(series, Len(series) - MaxCandles + 1, Len(series))
  ELSE series

\* if (lastHistoricalTimestamp && tick.timestamp <= lastHistoricalTimestamp)
Discarded(tick, lastHistoricalTimestamp) ==
  lastHistoricalTimestamp # 0 /\ tick.timestamp <= lastHistoricalTimestamp

\* updateCandleWithTick(candles, tick, timeframe, lastHistoricalTimestamp);
\* lastHistoricalTimestamp is 0 when the argument is undefined
updateCandleWithTick(series, tick, tf, lastHistoricalTimestamp) ==
  IF Discarded(tick, lastHistoricalTimestamp)
  THEN series
  ELSE LET candleStart == getCandleStartTimestamp(tick.timestamp, tf)
           n == Len(series)
       IN IF n > 0 /\ candleStart = getCandleStartTimestamp(series[n].timestamp, tf)
          THEN [series EXCEPT ![n] = UpdatedCandle(series[n], tick, candleStart)]
          ELSE KeepLast(Append(series, NewCandle(tick, candleStart)))

\* (variant: the realtime candles are not filtered)
AllRealtimeCandles(hist, realtime, tf) == realtime

\* (variant: the filter also keeps the candle of the last historical period)
RealtimeCandlesAtOrAfter(hist, realtime, tf) ==
  LET lastHistoricalCandleStart ==
        getCandleStartTimestamp(hist[Len(hist)].timestamp, tf)
      IsNew(candle) ==
        getCandleStartTimestamp(candle.timestamp, tf) >= lastHistoricalCandleStart
  IN SelectSeq(realtime, IsNew)

\* newRealtimeCandles: realtime.filter(candleStart > lastHistoricalCandleStart)
NewRealtimeCandles(hist, realtime, tf) ==
  LET lastHistoricalCandleStart ==
        getCandleStartTimestamp(hist[Len(hist)].timestamp, tf)
      IsNew(candle) ==
        getCandleStartTimestamp(candle.timestamp, tf) > lastHistoricalCandleStart
  IN SelectSeq(realtime, IsNew)

\* mergedCandle (lines 150-157)
MergedCandle(lastHistorical, firstRealtimeCandle) ==
  [lastHistorical EXCEPT
     !.high = Max(Or(lastHistorical.high, lastHistorical.value),
                  Or(firstRealtimeCandle.high, firstRealtimeCandle.value)),
     !.low = Min(Or(lastHistorical.low, lastHistorical.value),
                 Or(firstRealtimeCandle.low, firstRealtimeCandle.value)),
     !.close = Or(firstRealtimeCandle.close, firstRealtimeCandle.value),
     !.value = firstRealtimeCandle.value,
     !.volume = Or(lastHistorical.volume, 0) + Or(firstRealtimeCandle.volume, 0)]

\* (variant: the two early returns exchanged)
MergeEmptySwapped(hist, realtime, tf) ==
  IF Len(hist) = 0 THEN hist
  ELSE IF Len(realtime) = 0 THEN realtime
  ELSE hist \o NewRealtimeCandles(hist, realtime, tf)

\* (variant: the merge applied to the candles at or after the last
\* historical period)
MergeInclusive(hist, realtime, tf) ==
  IF Len(hist) = 0 THEN realtime
  ELSE IF Len(realtime) = 0 THEN hist
  ELSE LET newRealtimeCandles == RealtimeCandlesAtOrAfter(hist, realtime, tf)
           lastHistoricalCandleStart ==
             getCandleStartTimestamp(hist[Len(hist)].timestamp, tf)
       IN IF /\ Len(newRealtimeCandles) > 0
             /\ getCandleStartTimestamp(newRealtimeCandles[1].timestamp, tf)
                  = lastHistoricalCandleStart
          THEN SubSeq(hist, 1, Len(hist) - 1)
                 \o <<MergedCandle(hist[Len(hist)], newRealtimeCandles[1])>>
                 \o Tail(newRealtimeCandles)
          ELSE hist \o newRealtimeCandles

\* mergeHistoricalAndRealtime(historical, realtime, timeframe)
mergeHistoricalAndRealtime(hist, realtime, tf) ==
  IF Len(hist) = 0 THEN realtime
  ELSE IF Len(realtime) = 0 THEN hist
  ELSE LET newRealtimeCandles == NewRealtimeCandles(hist, realtime, tf)
           lastHistoricalCandleStart ==
             getCandleStartTimestamp(hist[Len(hist)].timestamp, tf)
       IN IF /\ Len(newRealtimeCandles) > 0
             /\ getCandleStartTimestamp(newRealtimeCandles[1].timestamp, tf)
                  = lastHistoricalCandleStart
          THEN SubSeq(hist, 1, Len(hist) - 1)
                 \o <<MergedCandle(hist[Len(hist)], newRealtimeCandles[1])>>
                 \o Tail(newRealtimeCandles)
          ELSE hist \o newRealtimeCandles

\* index.tsx: lastHistoricalTimestamp of the tick handler, 0 for undefined
lastHistoricalTimestamp ==
  IF Len(historical) > 0 THEN historical[Len(historical)].timestamp ELSE 0

\* index.tsx: chartData, recomputed from the two series
chartData == mergeHistoricalAndRealtime(historical, candles, timeframe)

(* Inputs.  Tick times lie in three consecutive periods of the timeframe:
   the epoch itself, 1000 and 1001 ms into the first period, and 1000 ms
   into the second and the third.  Prices are positive; volume 0 stands for
   a tick without volume.  The timeframes are those whose period, tripled,
   stays within the 32-bit integers TLC computes with. *)
Timeframes == {"1H", "1D", "1W"}

TickTimes(tf) ==
  {0, 1000, 1001, getCandlePeriodMs(tf) + 1000, 2 * getCandlePeriodMs(tf) + 1000}

TickValues == {[price |-> 9, volume |-> 0], [price |-> 11, volume |-> 5],
               [price |-> 12, volume |-> 5]}

Ticks(tf) ==
  {[timestamp |-> ts, price |-> v.price, volume |-> v.volume] :
     ts \in TickTimes(tf), v \in TickValues}

\* a candle of the REST snapshot
HistoricalCandle(ts) ==
  [timestamp |-> ts, value |-> 10, open |-> 10, high |-> 11, low |-> 9,
   close |-> 10, volume |-> 7]

Snapshots(tf) ==
  {<<HistoricalCandle(0)>>,
   <<HistoricalCandle(1000)>>,
   <<HistoricalCandle(1000), HistoricalCandle(getCandlePeriodMs(tf) + 1000)>>}

CandleInit ==
  /\ ClientInit
  /\ provider = "finnhub"
  /\ timeframe \in Timeframes
  /\ historical = <<>>
  /\ candles = <<>>
  /\ folded = <<>>

\* the REST query for the symbol and timeframe delivers its snapshot
LoadHistorical(snapshot) ==
  /\ historical = <<>>
  /\ historical' = snapshot
  /\ UNCHANGED <<timeframe, candles, folded, streamVars>>

\* the price handler of the dashboard: updateCandleWithTick on the realtime
\* series, then dispatch(updateRealtimeCandles(...))
OnPriceTick(tick) ==
  /\ Len(folded) < MaxTicks
  /\ candles' = updateCandleWithTick(candles, tick, timeframe, lastHistoricalTimestamp)
  /\ folded' = Append(folded, tick)
  /\ UNCHANGED <<timeframe, historical, streamVars>>

CandleNext ==
  \/ \E snapshot \in Snapshots(timeframe) : LoadHistorical(snapshot)
  \/ \E tick \in Ticks(timeframe) : OnPriceTick(tick)

CandleSpec == CandleInit /\ [][CandleNext]_vars

(* A long realtime series: one candle per hour, built by updateCandleWithTick
   from one tick per hour.  The periods of MaxCandles hours do not fit
   between the epoch and the largest integer TLC computes with, so the hours
   start before the epoch; Math.floor aligns those like any other.  The
   series starts at most CapSlack candles below the cap, and `folded` holds
   the ticks folded after that. *)
FirstHour == 0 - 500

HourlyTick(i) ==
  [timestamp |-> (FirstHour + i) * getCandlePeriodMs("1H") + 1000,
   price |-> 10, volume |-> 5]

HourlySeries(n) ==
  [i \in 1..n |->
     NewCandle(HourlyTick(i), getCandleStartTimestamp(HourlyTick(i).timestamp, "1H"))]

\* ticks of the last hours of the series and of the hours after it
CapTicks ==
  {[timestamp |-> HourlyTick(i).timestamp, price |-> v.price, volume |-> v.volume] :
     i \in (MaxCandles - 1)..(MaxCandles + MaxTicks), v \in TickValues}

CapInit ==
  /\ ClientInit
  /\ provider = "finnhub"
  /\ timeframe = "1H"
  /\ historical = <<>>
  /\ \E n \in (MaxCandles - CapSlack)..MaxCandles : candles = HourlySeries(n)
  /\ folded = <<>>

CapNext == \E tick \in CapTicks : OnPriceTick(tick)

CapSpec == CapInit /\ [][CapNext]_vars

----------------------------------------------------------------------------
(* Vocabulary of the claims *)

\* a WebSocket object is created by this step
TransportCreated ==
  \E s \in SocketIds : sockets[s].readyState = "FREE" /\ sockets'[s].readyState # "FREE"

\* the close event of socket s, with its code and reason, is delivered by this step
CloseEvent(s, code, reason) ==
  \/ \E wasClean \in BOOLEAN : TransportClose(s, code, reason, wasClean)
  \/ (dispatching = s /\ code = CLOSE_ABNORMAL /\ CloseAfterError(reason))

\* this step schedules a reconnect timer with the given delay
ReconnectScheduled(delay) ==
  /\ Len(timers') = Len(timers) + 1
  /\ \E s \in SocketIds : timers'[Len(timers')] = ReconnectTimer(s, delay)

NoTimerScheduled == timers' = timers

Range(seq) == {seq[i] : i \in 1..Len(seq)}

----------------------------------------------------------------------------
(* C1 -- After disconnect() no new transport is opened until connect() is
   called again explicitly; a reconnect timer scheduled before disconnect()
   that fires afterwards opens no transport and changes no client state. *)
C1_NoTransportAfterDisconnect ==
  [][ /\ (disconnected /\ disconnected') => ~TransportCreated
      /\ (disconnected /\ \E i \in 1..Len(timers) : ReconnectTimerFires(i))
           => UNCHANGED <<sockets, clientVars>>
    ]_vars

(* C2 -- Provider B: every close event whose reason contains "403", whatever
   its close code, leaves the client Closed: no reconnect timer is scheduled
   and the error callback is invoked exactly once, with the
   authentication-failure error. *)
C2_Reason403IsAuthFailure ==
  [][ \A s \in SocketIds, code \in CloseCodes, reason \in Reasons :
        (provider = "finnhub" /\ Includes(reason, "403") /\ CloseEvent(s, code, reason))
          => /\ NoTimerScheduled
             /\ effects'.errors = <<AuthenticationError>>
             /\ ~isConnected'
    ]_vars

(* C3 -- connect([newSymbol]) on a client that is already Open sends a
   subscribe message for exactly that symbol on the existing transport, opens
   no new transport, and the symbol is tracked from then on. *)
C3_IncrementalSubscribe ==
  [][ \A syms \in SymbolLists :
        (isConnected /\ Range(syms) \cap Range(symbols) = {} /\ Connect(syms))
          => /\ ~TransportCreated
             /\ ws' = ws
             /\ effects'.sent = (IF provider = "finnhub"
                                 THEN FinnhubMessages(sockets, ws, "subscribe", syms)
                                 ELSE EodhdMessages(sockets, ws, "subscribe", syms))
             /\ Range(syms) \subseteq Range(symbols')
    ]_vars

(* C4 -- Provider B: a close event whose reason contains "429" starts a
   cooldown of 5 minutes, and every connect() call made while that cooldown
   is pending and not yet over rejects with the rate-limit error that states
   the remaining whole minutes (the remaining time rounded up), creating no
   transport and leaving the retry counter, the tracked symbols and the
   cooldown deadline as they were. *)
RemainingMinutesOf(m, ms) == (m - 1) * 60000 < ms /\ ms <= m * 60000

C4_CooldownFailsFast ==
  [][ /\ \A s \in SocketIds, code \in CloseCodes, reason \in Reasons :
           (provider = "finnhub" /\ Includes(reason, "429") /\ CloseEvent(s, code, reason))
             => rateLimitedUntil' = now + 300000
      /\ \A syms \in SymbolLists :
           (provider = "finnhub" /\ rateLimitedUntil # Null /\ now < rateLimitedUntil
              /\ Connect(syms))
             => /\ effects'.result = "rejected"
                /\ effects'.rejection.message = RateLimitedError(0).message
                /\ RemainingMinutesOf(effects'.rejection.minutes, rateLimitedUntil - now)
                /\ effects'.errors = <<effects'.rejection>>
                /\ ~TransportCreated
                /\ UNCHANGED <<sockets, ws, isConnecting, reconnectAttempts, symbols,
                               rateLimitedUntil>>
    ]_vars

\* a connect() 100 seconds into the cooldown was rejected with "4 more minute(s)"
C4_Witness ==
  /\ provider = "finnhub"
  /\ effects.op = "connect"
  /\ effects.result = "rejected"
  /\ rateLimitedUntil = 200000
  /\ effects.rejection.minutes = 4

(* C5 -- Provider B: the first connect() call made once the rate-limit
   cooldown is over clears the cooldown, resets the retry counter to 0 and
   opens a new transport (the client is Connecting); while a cooldown is
   recorded no transport is opened by anything but that call. *)
C5_ConnectAfterCooldown ==
  [][ /\ \A syms \in SymbolLists :
           (provider = "finnhub" /\ rateLimitedUntil # Null /\ now >= rateLimitedUntil
              /\ Connect(syms))
             => /\ rateLimitedUntil' = Null
                /\ reconnectAttempts' = 0
                /\ TransportCreated
                /\ isConnecting'
                /\ ws' # 0
                /\ sockets[ws'].readyState = "FREE"
                /\ sockets'[ws'].readyState = "CONNECTING"
      /\ (provider = "finnhub" /\ rateLimitedUntil # Null /\ TransportCreated)
           => /\ now >= rateLimitedUntil
              /\ \E syms \in SymbolLists : Connect(syms)
    ]_vars

\* connect() ran its cooldown-expired branch and opened a transport
C5_Witness ==
  /\ provider = "finnhub"
  /\ effects.op = "connect"
  /\ effects.expired
  /\ effects.result = "pending"
  /\ isConnecting
  /\ reconnectAttempts = 0

(* C6 -- Provider B: a close event whose reason contains "429" schedules no
   reconnect timer and invokes the error callback exactly once for that
   close, whatever the close code and the retry counter were. *)
C6_RateLimitCloseReportsOnce ==
  [][ \A s \in SocketIds, code \in CloseCodes, reason \in Reasons :
        (provider = "finnhub" /\ Includes(reason, "429") /\ CloseEvent(s, code, reason))
          => /\ NoTimerScheduled
             /\ Len(effects'.errors) = 1
             /\ effects'.errors[1] = RateLimitExceededError
    ]_vars

\* the first transport was closed with a 429 reason: cooldown set, no timer
C6_Witness ==
  /\ provider = "finnhub"
  /\ effects.op = "onclose"
  /\ effects.errors = <<RateLimitExceededError>>
  /\ rateLimitedUntil = 300000
  /\ timers = <<>>
  /\ dispatching = 0
  /\ sockets[1].readyState = "CLOSED"
  /\ sockets[2].readyState = "FREE"

(* C7 -- In both clients the k-th consecutive automatic reconnect (k the
   retry counter after its increment, k <= 5) is scheduled after
   baseDelay * 2^(k-1): 3000, 6000, 12000, 24000, 48000 ms. *)
ExponentialDelay(k) ==
  CASE k = 1 -> 3000 [] k = 2 -> 6000 [] k = 3 -> 12000 [] k = 4 -> 24000
    [] k = 5 -> 48000 [] OTHER -> 0

C7_ExponentialBackoffBoth ==
  [][ \A s \in SocketIds, code \in CloseCodes, reason \in Reasons :
        (CloseEvent(s, code, reason) /\ Len(timers') > Len(timers))
          => /\ reconnectAttempts' = reconnectAttempts + 1
             /\ reconnectAttempts' <= 5
             /\ ReconnectScheduled(ExponentialDelay(reconnectAttempts'))
    ]_vars

(* C7 as amended -- In the Finnhub client the k-th consecutive automatic
   reconnect (k <= 5) is scheduled after 3000 * 2^(k-1) ms; in the EODHD
   client every automatic reconnect is scheduled after the fixed 3000 ms,
   whatever k is. *)
C7_BackoffPerProvider ==
  [][ \A s \in SocketIds, code \in CloseCodes, reason \in Reasons :
        (CloseEvent(s, code, reason) /\ Len(timers') > Len(timers))
          => /\ reconnectAttempts' = reconnectAttempts + 1
             /\ reconnectAttempts' <= 5
             /\ ReconnectScheduled(IF provider = "finnhub"
                                   THEN ExponentialDelay(reconnectAttempts')
                                   ELSE 3000)
    ]_vars

\* the fifth consecutive reconnect of the Finnhub client is pending, 48000 ms out
C7_Witness ==
  /\ provider = "finnhub"
  /\ effects.op = "onclose"
  /\ reconnectAttempts = 5
  /\ \E i \in 1..Len(timers) :
       timers[i].kind = "reconnect" /\ timers[i].delay = 48000 /\ timers[i].due = 48000

(* C8 -- In both clients the retry counter never exceeds the maximum attempt
   count (5); an unexpected close (abnormal code, no rate-limit or
   authentication signal) that arrives with the counter at the cap schedules
   no reconnect and invokes the error callback with a fatal connectivity
   error that differs from the authentication-failure error. *)
Unexpected(code, reason) ==
  code = CLOSE_ABNORMAL /\ ~Includes(reason, "429") /\ ~Includes(reason, "403")

C8_ExhaustionReportedBoth ==
  /\ [](reconnectAttempts <= 5)
  /\ [][ \A s \in SocketIds, code \in CloseCodes, reason \in Reasons :
           (Unexpected(code, reason) /\ reconnectAttempts = 5 /\ CloseEvent(s, code, reason))
             => /\ NoTimerScheduled
                /\ effects'.errors = <<MaxAttemptsError>>
                /\ MaxAttemptsError # AuthenticationError
       ]_vars

(* C8 as amended -- In both clients the retry counter never exceeds 5 and an
   unexpected close that arrives with the counter at the cap schedules no
   reconnect; the Finnhub client then invokes the error callback once with
   the max-attempts error, which differs from the authentication-failure
   error, while the EODHD client invokes no callback at all. *)
C8_ExhaustionPerProvider ==
  /\ [](reconnectAttempts <= 5)
  /\ [][ \A s \in SocketIds, code \in CloseCodes, reason \in Reasons :
           (Unexpected(code, reason) /\ reconnectAttempts = 5 /\ CloseEvent(s, code, reason))
             => /\ NoTimerScheduled
                /\ reconnectAttempts' = 5
                /\ effects'.errors = (IF provider = "finnhub" THEN <<MaxAttemptsError>>
                                      ELSE <<>>)
                /\ MaxAttemptsError # AuthenticationError
       ]_vars

\* one connect() call, six transports lost in a row: the Finnhub client
\* reported exhausted retries on the close of the sixth
C8_Witness ==
  /\ provider = "finnhub"
  /\ calls = 1
  /\ effects.op = "onclose"
  /\ effects.errors = <<MaxAttemptsError>>
  /\ reconnectAttempts = 5
  /\ timers = <<>>
  /\ \A s \in 1..6 : sockets[s].readyState = "CLOSED"

(* C9 -- In both clients a close with the clean close code (1000) schedules
   no reconnect timer, and a reconnect is scheduled only for a close that is
   not clean, not an authentication failure (code 1008 or a reason
   containing "403") and not a rate limit (a reason containing "429"). *)
C9_CleanCloseIsTerminal ==
  [][ \A s \in SocketIds, code \in CloseCodes, reason \in Reasons :
        CloseEvent(s, code, reason)
          => /\ code = CLOSE_NORMAL => NoTimerScheduled
             /\ Len(timers') > Len(timers)
                  => /\ code # CLOSE_NORMAL
                     /\ code # CLOSE_POLICY
                     /\ ~Includes(reason, "403")
                     /\ ~Includes(reason, "429")
    ]_vars

(* C10 -- Provider B: in every reachable state a running ping interval
   implies that the current transport is open, and at most one ping interval
   exists. *)
C10_HeartbeatOnlyWhileOpen ==
  provider = "finnhub" => /\ (intervals > 0 => isConnected)
                          /\ intervals <= 1

(* C11 -- Each client instance has at most one live transport (connecting
   or open) at any time. *)
LiveSockets == {s \in SocketIds : sockets[s].readyState \in {"CONNECTING", "OPEN"}}

C11_OneLiveTransport == Cardinality(LiveSockets) <= 1

(* C12 -- In both clients connect() called while the client is Open or
   Connecting (the connecting flag is set, or the current transport is open)
   resolves immediately and is a no-op: no transport is created, nothing is
   sent, and the transport reference, the tracked symbols, the retry counter
   and the handler map are unchanged. *)
C12_ConnectIsIdempotent ==
  [][ \A syms \in SymbolLists :
        ((isConnecting \/ (ws # 0 /\ sockets[ws].readyState = "OPEN")) /\ Connect(syms))
          => /\ effects'.result = "resolved"
             /\ effects'.sent = <<>>
             /\ effects'.errors = <<>>
             /\ ~TransportCreated
             /\ UNCHANGED <<sockets, ws, symbols, reconnectAttempts, messageCallbacks,
                            isConnecting, timers>>
    ]_vars

\* connect() was called during a connection attempt and resolved at once
C12_Witness ==
  /\ effects.op = "connect"
  /\ effects.result = "resolved"
  /\ isConnecting
  /\ ws # 0
  /\ sockets[ws].readyState = "CONNECTING"
  /\ Cardinality(LiveSockets) = 1

(* C13 -- In both clients the open event of a transport resets the retry
   counter to 0 and clears any rate-limit cooldown, and a subscribe message
   for every currently tracked symbol is sent on the newly opened transport:
   at once by the EODHD client, and by the Finnhub client when its delayed
   setup runs with that transport still open. *)
SubscribesFor(s, syms) ==
  IF provider = "finnhub"
  THEN [i \in 1..Len(syms) |-> [sock |-> s, type |-> "subscribe", symbols |-> <<syms[i]>>]]
  ELSE <<[sock |-> s, type |-> "subscribe", symbols |-> syms]>>

C13_OpenResetsAndSubscribes ==
  [][ /\ \A s \in SocketIds :
           TransportOpen(s)
             => /\ reconnectAttempts' = 0
                /\ rateLimitedUntil' = Null
                /\ provider = "eodhd" => effects'.sent = SubscribesFor(s, symbols)
                /\ provider = "finnhub"
                     => /\ Len(timers') = Len(timers) + 1
                        /\ timers'[Len(timers')].kind = "setup"
                        /\ timers'[Len(timers')].sock = s
      /\ \A i \in 1..Len(timers) :
           (SetupTimerFires(i) /\ sockets[timers[i].sock].readyState = "OPEN")
             => effects'.sent = SubscribesFor(timers[i].sock, symbols)
    ]_vars

(* C14 -- In both clients disconnect() called while the transport is open
   sends an unsubscribe message for every tracked symbol and then closes the
   transport; afterwards the handler map is empty and isConnected() is
   false. *)
UnsubscribesFor(s, syms) ==
  [i \in 1..Len(syms) |-> [sock |-> s, type |-> "unsubscribe", symbols |-> <<syms[i]>>]]

CloseOf(s) == <<[sock |-> s, type |-> "close", symbols |-> <<>>]>>

C14_DisconnectUnsubscribesBoth ==
  [][ (isConnected /\ Disconnect)
        => /\ effects'.sent =
                (IF provider = "finnhub" THEN UnsubscribesFor(ws, symbols)
                 ELSE <<[sock |-> ws, type |-> "unsubscribe", symbols |-> symbols]>>)
                \o CloseOf(ws)
           /\ messageCallbacks' = <<>>
           /\ ~isConnected'
    ]_vars

(* C14 as amended -- disconnect() called while the transport is open closes
   the transport, empties the handler map and leaves isConnected() false;
   before closing, the Finnhub client sends one unsubscribe message per
   tracked symbol, while the EODHD client sends no unsubscribe message. *)
C14_DisconnectPerProvider ==
  [][ (isConnected /\ Disconnect)
        => /\ effects'.sent =
                (IF provider = "finnhub" THEN UnsubscribesFor(ws, symbols) ELSE <<>>)
                \o CloseOf(ws)
           /\ sockets'[ws].readyState = "CLOSING"
           /\ messageCallbacks' = <<>>
           /\ ~isConnected'
    ]_vars

\* the Finnhub client unsubscribed its two symbols and closed the transport
C14_Witness ==
  /\ provider = "finnhub"
  /\ effects.op = "disconnect"
  /\ Len(effects.sent) = 3
  /\ effects.sent[1].type = "unsubscribe"
  /\ effects.sent[2].type = "unsubscribe"
  /\ effects.sent[3].type = "close"
  /\ ws = 0
  /\ sockets[effects.sent[3].sock].readyState = "CLOSING"

----------------------------------------------------------------------------
(* Vocabulary of the candle claims *)

\* the aligned period start of a candle
PeriodStart(candle) == getCandleStartTimestamp(candle.timestamp, timeframe)

\* strictly increasing in the timestamp field and in the aligned period start
StrictlyIncreasing(series) ==
  \A i \in 1..(Len(series) - 1) :
    /\ series[i].timestamp < series[i + 1].timestamp
    /\ PeriodStart(series[i]) < PeriodStart(series[i + 1])

Last(series) == series[Len(series)]

RECURSIVE SumVolume(_)
SumVolume(ticks) ==
  IF ticks = <<>> THEN 0 ELSE ticks[1].volume + SumVolume(Tail(ticks))

\* the tick handed to updateCandleWithTick by this step
TickFolded(tick) == OnPriceTick(tick)

(* C15 -- For ticks arriving in any timestamp order, folded one by one from
   an empty series, and a historical series strictly increasing in
   periodStart, the output of mergeHistoricalAndRealtime contains no two
   candles with the same aligned periodStart. *)
C15_MergeHasNoDuplicates ==
  StrictlyIncreasing(historical)
    => \A i, j \in 1..Len(chartData) :
         i # j => PeriodStart(chartData[i]) # PeriodStart(chartData[j])

(* C16 -- For a non-empty historical series and a non-empty realtime series
   that are each strictly increasing in periodStart, the output of
   mergeHistoricalAndRealtime is strictly increasing in periodStart. *)
C16_MergeIsStrictlyIncreasing ==
  (/\ historical # <<>>
   /\ candles # <<>>
   /\ StrictlyIncreasing(historical)
   /\ StrictlyIncreasing(candles))
    => StrictlyIncreasing(chartData)

\* two-candle snapshot loaded after ticks of all three periods were folded:
\* the merge dropped two realtime candles and kept the third
C16_Witness ==
  /\ Len(historical) = 2
  /\ Len(candles) = 3
  /\ StrictlyIncreasing(candles)
  /\ Len(chartData) = 3
  /\ chartData[3] = candles[3]

(* C17 -- When the first realtime candle covers the same period as the last
   historical candle, the merge output is the historical series with its
   last candle replaced by a merged candle (high = max of both highs, low =
   min of both lows, close = the realtime close, volume = the sum), followed
   by the later realtime candles. *)
C17_OverlapIsMerged ==
  (/\ historical # <<>>
   /\ candles # <<>>
   /\ PeriodStart(candles[1]) = PeriodStart(Last(historical)))
    => /\ Len(chartData) = Len(historical) + Len(candles) - 1
       /\ chartData[Len(historical)].high = Max(Last(historical).high, candles[1].high)
       /\ chartData[Len(historical)].low = Min(Last(historical).low, candles[1].low)
       /\ chartData[Len(historical)].close = candles[1].close
       /\ chartData[Len(historical)].volume = Last(historical).volume + candles[1].volume
       /\ \A i \in 2..Len(candles) : chartData[Len(historical) + i - 1] = candles[i]

(* C18 -- Merge identity laws: with an empty historical series the output is
   the realtime series unchanged, and with an empty realtime series it is
   the historical series unchanged (same elements, same order). *)
C18_MergeIdentity ==
  /\ historical = <<>> => chartData = candles
  /\ candles = <<>> => chartData = historical

\* no snapshot yet, and the realtime series holds three candles out of order
C18_Witness ==
  /\ historical = <<>>
  /\ Len(candles) = 3
  /\ candles[1].timestamp > candles[2].timestamp
  /\ chartData = candles

(* C19 -- Ticks of positive price whose timestamps all fall in one aligned
   period, folded in order from an empty series with no historical boundary,
   yield exactly one candle: open = the first tick's price, close = the last
   tick's price, high = the maximum price, low = the minimum price, volume =
   the sum of the tick volumes (a missing volume counts as 0). *)
C19_OnePeriodOneCandle ==
  (/\ historical = <<>>
   /\ folded # <<>>
   /\ \A i \in 1..Len(folded) :
        getCandleStartTimestamp(folded[i].timestamp, timeframe)
          = getCandleStartTimestamp(folded[1].timestamp, timeframe))
    => /\ Len(candles) = 1
       /\ candles[1].timestamp = getCandleStartTimestamp(folded[1].timestamp, timeframe)
       /\ candles[1].open = folded[1].price
       /\ candles[1].close = Last(folded).price
       /\ candles[1].value = Last(folded).price
       /\ \E i \in 1..Len(folded) : candles[1].high = folded[i].price
       /\ \A i \in 1..Len(folded) : candles[1].high >= folded[i].price
       /\ \E i \in 1..Len(folded) : candles[1].low = folded[i].price
       /\ \A i \in 1..Len(folded) : candles[1].low <= folded[i].price
       /\ candles[1].volume = SumVolume(folded)

\* three ticks of the first period, prices 11, 12, 9 with volumes 5, 5, none
C19_Witness ==
  /\ historical = <<>>
  /\ Len(folded) = 3
  /\ folded[1].price = 11 /\ folded[2].price = 12 /\ folded[3].price = 9
  /\ folded[1].timestamp = 1001 /\ folded[2].timestamp = 0 /\ folded[3].timestamp = 1000
  /\ candles = <<[timestamp |-> 0, value |-> 9, open |-> 11, high |-> 12, low |-> 9,
                  close |-> 9, volume |-> 10]>>

(* C20 -- For every supplied lastHistoricalTimestamp b >= 0 a tick with
   timestamp <= b leaves the series unchanged; a tick with timestamp b + 1
   is accepted (it becomes the close of the last candle), and on an empty
   series it starts a new candle. *)
C20_DiscardAtOrBeforeBoundary ==
  [][ \A tick \in Ticks(timeframe) :
        (historical # <<>> /\ TickFolded(tick))
          => /\ tick.timestamp <= lastHistoricalTimestamp => candles' = candles
             /\ tick.timestamp = lastHistoricalTimestamp + 1
                  => /\ candles' # <<>>
                     /\ Last(candles').close = tick.price
                     /\ candles = <<>>
                          => candles' = <<NewCandle(tick, getCandleStartTimestamp(
                                                             tick.timestamp, timeframe))>>
    ]_vars

(* C21 -- After any sequence of updateCandleWithTick calls starting from an
   empty series, with ticks of positive price, every candle of the series
   satisfies low <= open <= high and low <= close <= high. *)
C21_CandleWithinExtremes ==
  \A i \in 1..Len(candles) :
    /\ candles[i].low <= candles[i].open
    /\ candles[i].open <= candles[i].high
    /\ candles[i].low <= candles[i].close
    /\ candles[i].close <= candles[i].high

\* a candle that two later ticks of its period moved above and then below
\* its open
C21_Witness ==
  /\ Len(folded) = 3
  /\ Len(candles) = 1
  /\ candles[1].low < candles[1].open
  /\ candles[1].open < candles[1].high
  /\ candles[1].close = candles[1].low

(* C22 -- The series never holds more than the cap of 1000 candles, and a
   tick that appends a candle to a series of 1000 drops the oldest candle
   and keeps the new one as the last: the result is the old series without
   its first candle, followed by the new candle. *)
C22_CapKeepsNewest ==
  /\ [](Len(candles) <= MaxCandles)
  /\ [][ \A tick \in CapTicks :
           (/\ TickFolded(tick)
            /\ Len(candles) = MaxCandles
            /\ getCandleStartTimestamp(tick.timestamp, timeframe)
                 # PeriodStart(Last(candles)))
             => candles' = Append(Tail(candles),
                                  NewCandle(tick, getCandleStartTimestamp(
                                                    tick.timestamp, timeframe)))
       ]_vars

\* a full series after two more hours: the first two candles are gone and
\* the candle of the last tick is the last one
C22_Witness ==
  /\ Len(candles) = MaxCandles
  /\ Len(folded) = 2
  /\ candles[1] = HourlySeries(3)[3]
  /\ Last(candles).timestamp = getCandleStartTimestamp(Last(folded).timestamp, timeframe)
  /\ Last(candles).timestamp = getCandleStartTimestamp(HourlyTick(MaxCandles + 2).timestamp,
                                                       timeframe)

\* timestamps to align: those of the ticks folded so far, and the first and
\* last milliseconds of the first three periods
AlignInputs ==
  {folded[i].timestamp : i \in 1..Len(folded)}
    \cup {k * getCandlePeriodMs(timeframe) + d : k \in 0..2, d \in {0, 1}}
    \cup {k * getCandlePeriodMs(timeframe) - 1 : k \in 1..3}

(* C23 -- For every timeframe and every timestamp x >= 0 the aligned start
   getCandleStartTimestamp(x) is a multiple of the timeframe's period, lies
   at or before x and less than one period before it, and aligning it again
   returns it unchanged. *)
C23_AlignIsFloorAndIdempotent ==
  \A x \in AlignInputs :
    LET start == getCandleStartTimestamp(x, timeframe)
        period == getCandlePeriodMs(timeframe)
    IN /\ start % period = 0
       /\ start <= x
       /\ x < start + period
       /\ getCandleStartTimestamp(start, timeframe) = start

\* a tick 1000 ms into the second period opened a candle at that period's start
C23_Witness ==
  /\ folded # <<>>
  /\ Last(folded).timestamp = getCandlePeriodMs(timeframe) + 1000
  /\ Last(candles).timestamp = getCandlePeriodMs(timeframe)
  /\ Last(candles).timestamp < Last(folded).timestamp

(* C28 -- For ticks in any timestamp order, folded from an empty series, the
   realtime series is strictly increasing in periodStart, and each call
   leaves the series unchanged, replaces only its last candle, or appends
   one candle. *)
C28_SeriesOrderedAppendOnly ==
  /\ [](\A i \in 1..(Len(candles) - 1) :
          PeriodStart(candles[i]) < PeriodStart(candles[i + 1]))
  /\ [][ \A tick \in Ticks(timeframe) :
           TickFolded(tick)
             => \/ candles' = candles
                \/ /\ Len(candles') = Len(candles)
                   /\ \A i \in 1..(Len(candles) - 1) : candles'[i] = candles[i]
                \/ \E candle \in {Last(candles')} : candles' = Append(candles, candle)
       ]_vars

\* the candles of a series whose aligned start lies after a boundary, in order
RECURSIVE After(_, _)
After(series, boundary) ==
  IF series = <<>> THEN <<>>
  ELSE (IF PeriodStart(series[1]) > boundary THEN <<series[1]>> ELSE <<>>)
         \o After(Tail(series), boundary)

(* C29 -- For non-empty inputs the output of mergeHistoricalAndRealtime is
   the historical series, every candle unchanged, followed by exactly the
   realtime candles whose aligned start is strictly greater than that of the
   last historical candle, in their original order; no realtime candle at or
   before that boundary appears in the output. *)
C29_MergeIsHistoricalThenNewer ==
  (historical # <<>> /\ candles # <<>>)
    => /\ chartData = historical \o After(candles, PeriodStart(Last(historical)))
       /\ \A i \in 1..Len(historical) : chartData[i] = historical[i]
       /\ \A i \in (Len(historical) + 1)..Len(chartData) :
            PeriodStart(chartData[i]) > PeriodStart(Last(historical))

\* of two realtime candles the one in the snapshot's last period is left out
C29_Witness ==
  /\ Len(historical) = 1
  /\ Len(candles) = 2
  /\ PeriodStart(candles[1]) = PeriodStart(historical[1])
  /\ chartData = <<historical[1], candles[2]>>

(* C30 -- The boundary-merge branch of mergeHistoricalAndRealtime is never
   taken: the first realtime candle passing the strictly-greater filter
   never has the aligned start of the last historical candle, so the last
   historical candle is never replaced by a merged candle. *)
C30_BoundaryMergeUnreachable ==
  (historical # <<>> /\ candles # <<>>)
    => /\ LET newRealtimeCandles == NewRealtimeCandles(historical, candles, timeframe)
          IN newRealtimeCandles # <<>>
               => PeriodStart(newRealtimeCandles[1]) # PeriodStart(Last(historical))
       /\ Len(chartData) >= Len(historical)
       /\ chartData[Len(historical)] = Last(historical)

\* the only realtime candle lies in the last historical period and differs
\* from the historical candle, and the chart shows the snapshot alone
C30_Witness ==
  /\ Len(historical) = 2
  /\ Len(candles) = 1
  /\ PeriodStart(candles[1]) = PeriodStart(Last(historical))
  /\ candles[1].close # Last(historical).close
  /\ chartData = historical

----------------------------------------------------------------------------
(* Vocabulary of the handler claims *)

\* the registrations (onPriceUpdate call numbers) held for a symbol, in list
\* order; none when the map has no entry for the symbol
RegistrationsFor(map, symbol) ==
  IF Has(map, symbol)
  THEN [j \in 1..Len(Get(map, symbol)) |-> Get(map, symbol)[j].reg]
  ELSE <<>>

\* the tick a handler receives for a trade of a frame
StockPriceOf(trade) ==
  IF provider = "finnhub" THEN FinnhubStockPrice(trade) ELSE EodhdStockPrice(trade)

\* the handler calls of a dispatch that carried a given tick, in call order
CallsWith(invoked, tick) ==
  LET Carries(call) == call.tick = tick
  IN SelectSeq(invoked, Carries)

(* C24 -- When a tick for symbol S is dispatched, every handler registered
   for S at that moment is invoked exactly once with that tick, in the order
   of registration, and no handler registered for another symbol is
   invoked.  (The dispatch leaves the handler map as it was, so the map
   after the frame is the map at the moment of the dispatch.) *)
C24_DispatchInRegistrationOrder ==
  (effects.op = "onmessage" /\ effects.frame.kind = "trade")
    => LET trades == effects.frame.data
       IN /\ \A k \in 1..Len(trades) :
               LET made == CallsWith(effects.invoked, StockPriceOf(trades[k]))
                   regs == RegistrationsFor(messageCallbacks, trades[k].s)
               IN /\ [j \in 1..Len(made) |-> made[j].reg] = regs
                  /\ \A j \in 1..Len(made) :
                       made[j].callback = Get(messageCallbacks, trades[k].s)[j].callback
          /\ \A j \in 1..Len(effects.invoked) :
               \E k \in 1..Len(trades) :
                 effects.invoked[j].tick = StockPriceOf(trades[k])

\* a frame with a trade of AAPL and a trade of MSFT reached the two handlers
\* of AAPL in registration order and then the handler of MSFT
C24_Witness ==
  /\ effects.frame.kind = "trade"
  /\ Len(effects.invoked) = 3
  /\ RegistrationsFor(messageCallbacks, "AAPL") = <<1, 3>>
  /\ RegistrationsFor(messageCallbacks, "MSFT") = <<2>>
  /\ [j \in 1..3 |-> effects.invoked[j].reg] = <<1, 3, 2>>
  /\ effects.invoked[1].tick = effects.invoked[2].tick
  /\ effects.invoked[3].tick # effects.invoked[1].tick

\* the handler functions held for a symbol, in list order
CallbacksFor(map, symbol) ==
  IF Has(map, symbol)
  THEN [j \in 1..Len(Get(map, symbol)) |-> Get(map, symbol)[j].callback]
  ELSE <<>>

\* the handler functions of a symbol's registrations other than registration
\* i, in list order
CallbacksWithout(map, symbol, i) ==
  IF Has(map, symbol)
  THEN LET Other(handler) == handler.reg # i
           others == SelectSeq(Get(map, symbol), Other)
       IN [j \in 1..Len(others) |-> others[j].callback]
  ELSE <<>>

(* C25 -- The function returned by onPriceUpdate(symbol, handler) removes
   exactly the registration it was returned for: after a call of it that
   registration is gone, and every other registration, for the same or
   another symbol, including another registration of the same function, is
   still present in its original relative order. *)
C25_UnsubscriberRemovesOwnRegistration ==
  [][ \A i \in 1..MaxHandlers :
        CallUnsubscriber(i)
          => \A symbol \in HandlerSymbols :
               CallbacksFor(messageCallbacks', symbol)
                 = CallbacksWithout(messageCallbacks, symbol, i)
    ]_vars

\* everything of the client and its environment but the record of the last
\* call's outputs
stateVars == <<provider, sockets, dispatching, timers, clientVars, intervals,
               disconnected, calls, unsubscribers>>

(* C26 -- The handler map has an entry for a symbol only while at least one
   handler is registered for it (removing the last handler deletes the
   entry), and a tick for a symbol without an entry is dropped: no handler
   is invoked, no error is reported, nothing is sent and the client's state
   does not change. *)
C26_EntriesOnlyWhileRegistered ==
  /\ [](\A i \in 1..Len(messageCallbacks) :
          /\ Len(messageCallbacks[i].callbacks) > 0
          /\ \A j \in 1..Len(messageCallbacks) :
               messageCallbacks[i].symbol = messageCallbacks[j].symbol => i = j)
  /\ [][ (/\ effects'.op = "onmessage"
          /\ effects'.frame.kind = "trade"
          /\ \A k \in 1..Len(effects'.frame.data) :
               ~Has(messageCallbacks, effects'.frame.data[k].s))
           => /\ effects'.invoked = <<>>
              /\ effects'.errors = <<>>
              /\ effects'.sent = <<>>
              /\ UNCHANGED stateVars
       ]_vars

\* the only handler of AAPL was removed through its unsubscriber, MSFT keeps
\* one, and a tick for AAPL arrived on the open transport
C26_Witness ==
  /\ isConnected
  /\ calls = 1
  /\ unsubscribers = <<[symbol |-> "AAPL", callback |-> "f"],
                       [symbol |-> "MSFT", callback |-> "g"]>>
  /\ ~Has(messageCallbacks, "AAPL")
  /\ RegistrationsFor(messageCallbacks, "MSFT") = <<2>>
  /\ effects.op = "onmessage"
  /\ effects.frame.kind = "trade"
  /\ Len(effects.frame.data) = 1
  /\ effects.frame.data[1].s = "AAPL"
  /\ effects.invoked = <<>>

(* C27 -- In both clients an inbound frame that cannot be decoded changes
   nothing: the transport stays open, the retry counter, the cooldown, the
   tracked symbols and the handler map are unchanged, no handler is invoked
   and nothing is reported or sent; a well-formed tick that follows is
   dispatched to the handlers of its symbol. *)
C27_UndecodableFrameIsDropped ==
  /\ [][ (effects'.op = "onmessage" /\ effects'.frame.kind = "undecodable")
           => /\ UNCHANGED stateVars
              /\ effects'.invoked = <<>>
              /\ effects'.errors = <<>>
              /\ effects'.sent = <<>>
       ]_vars
  /\ [][ (/\ effects.op = "onmessage"
          /\ effects.frame.kind = "undecodable"
          /\ effects'.op = "onmessage"
          /\ effects'.frame.kind = "trade")
           => \A k \in 1..Len(effects'.frame.data) :
                LET made == CallsWith(effects'.invoked,
                                      StockPriceOf(effects'.frame.data[k]))
                IN [j \in 1..Len(made) |-> made[j].reg]
                     = RegistrationsFor(messageCallbacks, effects'.frame.data[k].s)
       ]_vars

\* an undecodable frame on the open transport of a client with both
\* callbacks set and three handlers registered
C27_Witness ==
  /\ isConnected
  /\ Registered
  /\ symbols # <<>>
  /\ Len(unsubscribers) = 3
  /\ RegistrationsFor(messageCallbacks, "AAPL") = <<1, 2, 3>>
  /\ effects.op = "onmessage"
  /\ effects.frame.kind = "undecodable"
  /\ effects.errors = <<>>

----------------------------------------------------------------------------
(* C31 -- Every tick that updateCandleWithTick accepts (its timestamp is
   greater than the last historical candle's timestamp) is visible in the
   chart: after it is folded into the realtime series and the series is
   merged with the historical one, the last candle of the chart has the
   tick's price as its close, also when the tick falls in the aligned period
   of the last historical candle. *)
C31_AcceptedTickIsVisible ==
  [][ \A tick \in Ticks(timeframe) :
        (/\ TickFolded(tick)
         /\ historical # <<>>
         /\ tick.timestamp > lastHistoricalTimestamp)
          => /\ chartData' # <<>>
             /\ Last(chartData').close = tick.price
    ]_vars

(* C32 -- A connect() call issued after disconnect() always opens a new
   transport, also when disconnect() was called while a connection attempt
   was in progress: the connecting flag is true only while the client's
   current transport is connecting, so the call is never taken for
   'already connecting'.  (Provider B refuses a connect() during its
   rate-limit cooldown; that case is left aside.) *)
C32_ConnectAfterDisconnectOpens ==
  /\ [](isConnecting => (ws # 0 /\ sockets[ws].readyState = "CONNECTING"))
  /\ [][ \A syms \in SymbolLists :
           (disconnected /\ ~CooldownActive /\ Connect(syms)) => TransportCreated
       ]_vars

(* C33 -- A close event delivered for a transport that is no longer the
   client's current transport (disconnect() and a fresh connect() came
   before the old transport's close event) does not alter the state of the
   current connection: the transport reference, the connecting flag and the
   heartbeat are unchanged, and no reconnect is scheduled because of it. *)
C33_StaleCloseIsIgnored ==
  [][ \A s \in SocketIds, code \in CloseCodes, reason \in Reasons :
        (ws # 0 /\ s # ws /\ CloseEvent(s, code, reason))
          => /\ ws' = ws
             /\ isConnecting' = isConnecting
             /\ pingInterval' = pingInterval
             /\ intervals' = intervals
             /\ NoTimerScheduled
    ]_vars

(* C34 -- The onConnect handler is invoked only while the client is Open:
   whenever it runs, isConnected() is true, also when the transport closes
   or disconnect() is called between the transport-open event and
   Provider B's delayed post-open setup. *)
C34_NotifiedOnlyWhileOpen ==
  effects.notified => isConnected

(* C35 -- Handler registrations survive automatic reconnection: transport
   open, error and close events and reconnect-timer firings leave the
   handler map unchanged (only onPriceUpdate adds to it, only disconnect()
   and the returned unsubscribe functions remove from it), so after an
   unexpected close and a successful automatic reconnect every registered
   handler still receives the ticks of its symbol. *)
C35_HandlersSurviveReconnect ==
  /\ [][ messageCallbacks' # messageCallbacks
           => effects'.op \in {"onPriceUpdate", "unsubscriber", "disconnect"}
       ]_vars
  /\ []((effects.op = "onmessage" /\ effects.frame.kind = "trade")
          => \A k \in 1..Len(effects.frame.data) :
               LET made == CallsWith(effects.invoked, StockPriceOf(effects.frame.data[k]))
               IN [j \in 1..Len(made) |-> made[j].reg]
                    = RegistrationsFor(messageCallbacks, effects.frame.data[k].s))

\* the application connected once, the first transport closed unexpectedly,
\* the reconnect timer opened the second, and a tick for AAPL on it reached
\* the three handlers
C35_Witness ==
  /\ calls = 1
  /\ ~disconnected
  /\ sockets[1].readyState = "CLOSED"
  /\ ws = 2
  /\ isConnected
  /\ effects.op = "onmessage"
  /\ effects.frame.kind = "trade"
  /\ effects.frame.data[1].s = "AAPL"
  /\ RegistrationsFor(messageCallbacks, "AAPL") = <<1, 2, 3>>
  /\ [j \in 1..Len(effects.invoked) |-> effects.invoked[j].reg] = <<1, 2, 3>>

(* C36 -- A handler that calls its own unsubscribe function while a tick is
   being dispatched does not make another handler miss that tick: every
   handler that was registered for the symbol when the dispatch started and
   was not itself removed is invoked. *)
C36_UnsubscribeDuringDispatch ==
  [][ \A s \in SocketIds, data \in OneTradeFrames :
        TransportTrade(s, data)
          => \A i \in 1..Len(RegistrationsFor(messageCallbacks, data.data[1].s)) :
               LET reg == RegistrationsFor(messageCallbacks, data.data[1].s)[i]
               IN (\E j \in 1..Len(RegistrationsFor(messageCallbacks', data.data[1].s)) :
                     RegistrationsFor(messageCallbacks', data.data[1].s)[j] = reg)
                    => \E j \in 1..Len(effects'.invoked) : effects'.invoked[j].reg = reg
    ]_vars

(* C37 -- The unsubscribe function returned by onPriceUpdate is idempotent:
   calling it a second time removes no further registration, also when the
   same function was registered more than once for the symbol. *)
C37_UnsubscriberIsIdempotent ==
  [][ \A i \in 1..MaxHandlers :
        (effects.op = "unsubscriber" /\ effects.closure = i /\ CallUnsubscriber(i))
          => messageCallbacks' = messageCallbacks
    ]_vars

====
